---- MODULE Spec2Model ----
(***************************************************************************)
(* server.py: a Flask application with five routes, each rendering one     *)
(* template.  The model covers the application object built at import      *)
(* (its URL map), the handling of a request by a worker of the hosting     *)
(* server (URL matching, the view function, the response) and the template *)
(* and static files the views read.                                        *)
(*                                                                         *)
(* A URL path is the sequence of its segments: "/" is <<"">>,              *)
(* "/templates/checkers.html" is <<"templates", "checkers.html">>, a       *)
(* trailing slash is a last empty segment and a doubled slash an inner     *)
(* empty segment.                                                          *)
(***************************************************************************)
EXTENDS Naturals, Sequences, FiniteSets

VARIABLES
    url_map,    \* app.url_map: the rules, in registration order
    disk,       \* the template and static files: file -> "missing", "a", "b"
    nchanges,   \* how many times the files were changed (bounds the model)
    pc,         \* worker -> "idle" | "view" | "done"
    req,        \* worker -> the request it handles
    endpoint,   \* worker -> the endpoint its request was matched to
    resp,       \* worker -> the response it produced
    calls       \* worker -> the render_template calls of its request

vars == <<url_map, disk, nchanges, pc, req, endpoint, resp, calls>>

----------------------------------------------------------------------------
(* Bounds and input sets *)

MaxChanges == 1

Workers == {"w1", "w2"}

Methods == {"GET", "HEAD", "OPTIONS", "POST"}

RootPath == <<"">>

RegisteredPaths ==
    { RootPath,
      <<"templates", "art_museum.html">>,
      <<"templates", "checkers.html">>,
      <<"templates", "drawing.html">>,
      <<"templates", "flightsim.html">> }

VariantPaths ==
    { <<"nonexistent">>,
      <<"templates">>,                          \* a prefix
      <<"templates", "checkers.html.bak">>,     \* an extension
      <<"templates", "checkers.html", "">>,     \* trailing slash
      <<"Templates", "checkers.html">>,         \* case variant
      <<"templates", "", "checkers.html">>,     \* doubled slash
      <<"static", "app.js">> }                  \* under the static folder

Paths == RegisteredPaths \cup VariantPaths

ArgSets == { {}, {"x"} }

Requests == [method : Methods, path : Paths, args : ArgSets]

Templates ==
    {"index.html", "art_museum.html", "checkers.html", "drawing.html",
     "flightsim.html"}

StaticFiles == {"app.js"}

Files == Templates \cup StaticFiles

Versions == {"a", "b"}

----------------------------------------------------------------------------
(* The application object *)

DefaultMethods == {"GET", "HEAD", "OPTIONS"}

\* Flask(__name__): static_folder defaults to "static", so the constructor
\* registers /static/<path:filename> before any route of the module.
StaticRule ==
    [path |-> <<"static">>, converter |-> "path", endpoint |-> "static",
     methods |-> DefaultMethods]

\* Routes with the drawing view registered under the checkers path.
RoutesDuplicate ==
    << [path |-> RootPath, endpoint |-> "index"],
       [path |-> <<"templates", "art_museum.html">>, endpoint |-> "art_museum"],
       [path |-> <<"templates", "checkers.html">>, endpoint |-> "checkers"],
       [path |-> <<"templates", "checkers.html">>, endpoint |-> "drawing"],
       [path |-> <<"templates", "flightsim.html">>, endpoint |-> "flightsim"] >>

\* The five @app.route(...) registrations, in source order.
Routes ==
    << [path |-> RootPath, endpoint |-> "index"],
       [path |-> <<"templates", "art_museum.html">>, endpoint |-> "art_museum"],
       [path |-> <<"templates", "checkers.html">>, endpoint |-> "checkers"],
       [path |-> <<"templates", "drawing.html">>, endpoint |-> "drawing"],
       [path |-> <<"templates", "flightsim.html">>, endpoint |-> "flightsim"] >>

\* AddUrlRule as for a route declared with methods=["GET", "POST"].
AddUrlRulePost(map, route) ==
    Append(map, [path |-> route.path, converter |-> "none",
                 endpoint |-> route.endpoint,
                 methods |-> DefaultMethods \cup {"POST"}])

\* app.route(rule) with no methods argument: a literal rule answering GET,
\* and with it HEAD and OPTIONS.
AddUrlRule(map, route) ==
    Append(map, [path |-> route.path, converter |-> "none",
                 endpoint |-> route.endpoint, methods |-> DefaultMethods])

RECURSIVE RegisterAll(_, _)
RegisterAll(map, order) ==
    IF order = <<>> THEN map
    ELSE RegisterAll(AddUrlRule(map, Routes[Head(order)]), Tail(order))

SourceOrder == [i \in 1..Len(Routes) |-> i]

\* ViewFunction with the templates of checkers and drawing exchanged.
ViewFunctionSwapped(name) ==
    CASE name = "index"      -> "index.html"
      [] name = "art_museum" -> "art_museum.html"
      [] name = "checkers"   -> "drawing.html"
      [] name = "drawing"    -> "checkers.html"
      [] name = "flightsim"  -> "flightsim.html"

\* The template each view function renders.
ViewFunction(name) ==
    CASE name = "index"      -> "index.html"
      [] name = "art_museum" -> "art_museum.html"
      [] name = "checkers"   -> "checkers.html"
      [] name = "drawing"    -> "drawing.html"
      [] name = "flightsim"  -> "flightsim.html"

\* ViewContext of a view that hands the query arguments to the template.
ViewContextArgs(r) == r.args

\* The keyword arguments a view passes to render_template: none.
ViewContext(r) == {}

----------------------------------------------------------------------------
(* URL matching *)

Min(S) == CHOOSE x \in S : \A y \in S : x <= y

IsPrefix(p, q) == Len(p) <= Len(q) /\ SubSeq(q, 1, Len(p)) = p

\* RuleMatches with a literal rule matching every path it is a prefix of.
RuleMatchesPrefix(rule, path) ==
    IF rule.converter = "path"
    THEN /\ IsPrefix(rule.path, path)
         /\ Len(path) > Len(rule.path)
         /\ \A i \in (Len(rule.path) + 1)..Len(path) : path[i] # ""
    ELSE IsPrefix(rule.path, path)

\* A literal rule matches the path equal to it; the static rule matches
\* /static/ followed by a non-empty file name.
RuleMatches(rule, path) ==
    IF rule.converter = "path"
    THEN /\ IsPrefix(rule.path, path)
         /\ Len(path) > Len(rule.path)
         /\ \A i \in (Len(rule.path) + 1)..Len(path) : path[i] # ""
    ELSE path = rule.path

RECURSIVE MergeSlashes(_)
\* Consecutive slashes merged: the inner empty segments dropped.
MergeSlashes(path) ==
    IF Len(path) <= 1 THEN path
    ELSE IF Head(path) = "" THEN MergeSlashes(Tail(path))
    ELSE <<Head(path)>> \o MergeSlashes(Tail(path))

PathHits(map, path) == {i \in 1..Len(map) : RuleMatches(map[i], path)}

MethodHits(map, path, method) ==
    {i \in PathHits(map, path) : method \in map[i].methods}

\* The outcome of matching a request against the map: the first rule that
\* matches path and method, a redirect to the merged path when only that
\* one matches, MethodNotAllowed when the path matches for other methods,
\* NotFound otherwise.
Match(map, r) ==
    LET merged == MergeSlashes(r.path) IN
    IF MethodHits(map, r.path, r.method) # {}
    THEN [kind |-> "rule", rule |-> map[Min(MethodHits(map, r.path, r.method))]]
    ELSE IF PathHits(map, r.path) # {}
    THEN [kind |-> "MethodNotAllowed"]
    ELSE IF merged # r.path /\ MethodHits(map, merged, r.method) # {}
    THEN [kind |-> "RequestRedirect", to |-> merged]
    ELSE IF merged # r.path /\ PathHits(map, merged) # {}
    THEN [kind |-> "MethodNotAllowed"]
    ELSE [kind |-> "NotFound"]

----------------------------------------------------------------------------
(* Responses *)

NoBody == [source |-> <<>>, vars |-> {}]

ErrorResponse(code) == [status |-> code, body |-> NoBody, location |-> <<>>]

NotFound == ErrorResponse(404)
MethodNotAllowed == ErrorResponse(405)
InternalServerError == ErrorResponse(500)

Redirect(to) == [status |-> 308, body |-> NoBody, location |-> to]

Ok(body) == [status |-> 200, body |-> body, location |-> <<>>]

\* The body is not sent in answer to HEAD.
Finalize(r, response) ==
    IF r.method = "HEAD" THEN [response EXCEPT !.body = NoBody] ELSE response

\* render_template(name, **context) on the files d.
Render(name, context, d) ==
    IF d[name] = "missing"
    THEN [ok |-> FALSE, html |-> NoBody]
    ELSE [ok |-> TRUE, html |-> [source |-> <<name, d[name]>>, vars |-> context]]

RenderCall(name, context, d) ==
    [template |-> name, vars |-> context, ok |-> Render(name, context, d).ok]

\* ViewResponse of a view that catches the failure and answers 200 with an
\* empty page.
ViewResponseCatch(name, r, d) ==
    LET out == Render(ViewFunction(name), ViewContext(r), d) IN
    IF out.ok THEN Ok(out.html) ELSE Ok(NoBody)

\* A view function's body: return render_template(<its template>).  A render
\* that raises is not caught: the application answers 500.
ViewResponse(name, r, d) ==
    LET out == Render(ViewFunction(name), ViewContext(r), d) IN
    IF out.ok THEN Ok(out.html) ELSE InternalServerError

\* ViewCalls of a view that renders its template twice.
ViewCallsTwice(name, r, d) ==
    <<RenderCall(ViewFunction(name), ViewContext(r), d),
      RenderCall(ViewFunction(name), ViewContext(r), d)>>

\* The render_template calls a view function makes: the one of its return.
ViewCalls(name, r, d) ==
    <<RenderCall(ViewFunction(name), ViewContext(r), d)>>

\* The static view: the file under the static folder, or NotFound.
StaticResponse(filename, d) ==
    IF Len(filename) = 1 /\ filename[1] \in StaticFiles
       /\ d[filename[1]] # "missing"
    THEN Ok([source |-> <<filename[1], d[filename[1]]>>, vars |-> {}])
    ELSE NotFound

----------------------------------------------------------------------------
(* Workers *)

NoRequest == [method |-> "", path |-> <<>>, args |-> {}]
NoEndpoint == [name |-> "", filename |-> <<>>]
NoResponse == [status |-> 0, body |-> NoBody, location |-> <<>>]

\* CurrentEndpoint read from one slot shared by the workers instead of the
\* request's own.
CurrentEndpointShared(w) ==
    IF pc["w1"] = "view" THEN endpoint["w1"] ELSE endpoint[w]

\* The endpoint a view runs for: the one matched for its own request.
CurrentEndpoint(w) == endpoint[w]

EndpointOf(rule, path) ==
    [name |-> rule.endpoint,
     filename |-> IF rule.converter = "path"
                  THEN SubSeq(path, Len(rule.path) + 1, Len(path))
                  ELSE <<>>]

\* UrlMapAfterView of a view that unregisters its own rule once served.
UrlMapAfterViewDrop(w) ==
    SelectSeq(url_map, LAMBDA rule : rule.endpoint # endpoint[w].name)

\* UrlMapAfterView of a view that registers a further rule when first run.
UrlMapAfterViewAdd(w) ==
    IF \E i \in 1..Len(url_map) : url_map[i].path = <<"nonexistent">>
    THEN url_map
    ELSE Append(url_map, [path |-> <<"nonexistent">>, converter |-> "none",
                          endpoint |-> "index", methods |-> DefaultMethods])

\* What the view leaves of the URL map: it does not touch it.
UrlMapAfterView(w) == url_map

Init ==
    /\ url_map = RegisterAll(<<StaticRule>>, SourceOrder)
    /\ disk = [f \in Files |-> "a"]
    /\ nchanges = 0
    /\ pc = [w \in Workers |-> "idle"]
    /\ req = [w \in Workers |-> NoRequest]
    /\ endpoint = [w \in Workers |-> NoEndpoint]
    /\ resp = [w \in Workers |-> NoResponse]
    /\ calls = [w \in Workers |-> <<>>]

\* A worker takes a request and matches its URL.  A routing exception is
\* answered at once, OPTIONS is answered automatically, anything else goes
\* to the view function of the matched rule.
Receive(w, r) ==
    LET m == Match(url_map, r) IN
    /\ pc[w] = "idle"
    /\ req' = [req EXCEPT ![w] = r]
    /\ calls' = [calls EXCEPT ![w] = <<>>]
    /\ IF m.kind = "rule" /\ r.method # "OPTIONS"
       THEN /\ pc' = [pc EXCEPT ![w] = "view"]
            /\ endpoint' = [endpoint EXCEPT ![w] = EndpointOf(m.rule, r.path)]
            /\ resp' = resp
       ELSE /\ pc' = [pc EXCEPT ![w] = "done"]
            /\ endpoint' = endpoint
            /\ resp' = [resp EXCEPT ![w] =
                   CASE m.kind = "rule" -> Ok(NoBody)
                     [] m.kind = "RequestRedirect" -> Redirect(m.to)
                     [] m.kind = "MethodNotAllowed" -> MethodNotAllowed
                     [] m.kind = "NotFound" -> NotFound]
    /\ UNCHANGED <<url_map, disk, nchanges>>

\* The view function runs and its result becomes the response.
View(w) ==
    LET ep == CurrentEndpoint(w) IN
    /\ pc[w] = "view"
    /\ pc' = [pc EXCEPT ![w] = "done"]
    /\ IF ep.name = "static"
       THEN /\ resp' = [resp EXCEPT ![w] =
                   Finalize(req[w], StaticResponse(ep.filename, disk))]
            /\ calls' = calls
       ELSE /\ resp' = [resp EXCEPT ![w] =
                   Finalize(req[w], ViewResponse(ep.name, req[w], disk))]
            /\ calls' = [calls EXCEPT ![w] = @ \o ViewCalls(ep.name, req[w], disk)]
    /\ url_map' = UrlMapAfterView(w)
    /\ UNCHANGED <<disk, nchanges, req, endpoint>>

\* The response is sent and the worker is free again.
Finish(w) ==
    /\ pc[w] = "done"
    /\ pc' = [pc EXCEPT ![w] = "idle"]
    /\ req' = [req EXCEPT ![w] = NoRequest]
    /\ endpoint' = [endpoint EXCEPT ![w] = NoEndpoint]
    /\ resp' = [resp EXCEPT ![w] = NoResponse]
    /\ calls' = [calls EXCEPT ![w] = <<>>]
    /\ UNCHANGED <<url_map, disk, nchanges>>

\* A file is written or removed.  The responses already produced are sent
\* before the change (sending reads and writes nothing a handler uses), so
\* a response a worker still holds was produced from the files as they are.
FileChange(f, v) ==
    /\ nchanges < MaxChanges
    /\ disk[f] # v
    /\ disk' = [disk EXCEPT ![f] = v]
    /\ nchanges' = nchanges + 1
    /\ pc' = [w \in Workers |-> IF pc[w] = "done" THEN "idle" ELSE pc[w]]
    /\ req' = [w \in Workers |-> IF pc[w] = "done" THEN NoRequest ELSE req[w]]
    /\ endpoint' = [w \in Workers |->
                       IF pc[w] = "done" THEN NoEndpoint ELSE endpoint[w]]
    /\ resp' = [w \in Workers |-> IF pc[w] = "done" THEN NoResponse ELSE resp[w]]
    /\ calls' = [w \in Workers |-> IF pc[w] = "done" THEN <<>> ELSE calls[w]]
    /\ UNCHANGED url_map

Next ==
    \/ \E w \in Workers, r \in Requests : Receive(w, r)
    \/ \E w \in Workers : View(w)
    \/ \E w \in Workers : Finish(w)
    \/ \E f \in Files, v \in Versions \cup {"missing"} : FileChange(f, v)

Spec == Init /\ [][Next]_vars

----------------------------------------------------------------------------
(* The routes registered in any order *)

Orders ==
    {o \in [1..Len(Routes) -> 1..Len(Routes)] :
        \A i, j \in 1..Len(Routes) : o[i] = o[j] => i = j}

\* As Init, with the five registrations made in an arbitrary order.
InitAnyOrder ==
    /\ url_map \in {RegisterAll(<<StaticRule>>, o) : o \in Orders}
    /\ disk = [f \in Files |-> "a"]
    /\ nchanges = 0
    /\ pc = [w \in Workers |-> "idle"]
    /\ req = [w \in Workers |-> NoRequest]
    /\ endpoint = [w \in Workers |-> NoEndpoint]
    /\ resp = [w \in Workers |-> NoResponse]
    /\ calls = [w \in Workers |-> <<>>]

NextOneWorker ==
    \/ \E r \in Requests : Receive("w1", r)
    \/ View("w1")
    \/ Finish("w1")

SpecAnyOrder == InitAnyOrder /\ [][NextOneWorker]_vars

----------------------------------------------------------------------------
(* Properties *)

\* The table of the specification: path -> template.
ClaimedTemplate(path) ==
    CASE path = RootPath -> "index.html"
      [] path = <<"templates", "art_museum.html">> -> "art_museum.html"
      [] path = <<"templates", "checkers.html">> -> "checkers.html"
      [] path = <<"templates", "drawing.html">> -> "drawing.html"
      [] path = <<"templates", "flightsim.html">> -> "flightsim.html"

Done(w) == pc[w] = "done"

Registered(w) == req[w].path \in RegisteredPaths

UnderStatic(path) == Len(path) >= 2 /\ path[1] = "static"

RenderedBody(t) == [source |-> <<t, disk[t]>>, vars |-> {}]

\* C1: GET on a registered path whose template the renderer resolves is
\* answered 200 with the rendered content of the template the table maps
\* the path to.
C1_GetRendersMappedTemplate ==
    \A w \in Workers :
        ( /\ Done(w)
          /\ req[w].method = "GET"
          /\ Registered(w)
          /\ disk[ClaimedTemplate(req[w].path)] # "missing" )
        => resp[w] = Ok(RenderedBody(ClaimedTemplate(req[w].path)))

C1_Witness ==
    \E w \in Workers :
        /\ Done(w)
        /\ req[w] = [method |-> "GET", path |-> <<"templates", "flightsim.html">>,
                     args |-> {}]
        /\ resp[w].status = 200

C4_Idempotent ==
    \A w, v \in Workers :
        (Done(w) /\ Done(v) /\ req[w] = req[v])
        => (resp[w] = resp[v] /\ calls[w] = calls[v])

C4_Witness ==
    /\ Done("w1") /\ Done("w2")
    /\ req["w1"] = req["w2"]
    /\ req["w1"].method = "GET"
    /\ req["w1"].path = <<"templates", "drawing.html">>
    /\ resp["w1"].status = 200

C6_RenderFailureIsServerError ==
    \A w \in Workers :
        ( /\ Done(w)
          /\ req[w].method \in {"GET", "HEAD"}
          /\ Registered(w)
          /\ disk[ClaimedTemplate(req[w].path)] = "missing" )
        => /\ resp[w] = InternalServerError
           /\ calls[w] = <<[template |-> ClaimedTemplate(req[w].path),
                            vars |-> {}, ok |-> FALSE]>>

C6_Witness ==
    \E w \in Workers :
        /\ Done(w)
        /\ req[w].method = "GET"
        /\ req[w].path = <<"templates", "art_museum.html">>
        /\ disk["art_museum.html"] = "missing"
        /\ resp[w].status = 500

TemplateEntries(map) ==
    { <<map[i].path, ViewFunction(map[i].endpoint)>> :
          i \in {j \in 1..Len(map) : map[j].endpoint # "static"} }

\* C7: whatever requests were handled, the table holds exactly the five
\* (path, template) entries registered at start.
C7_TableUnchanged ==
    /\ TemplateEntries(url_map) = {<<p, ClaimedTemplate(p)>> : p \in RegisteredPaths}
    /\ Len(url_map) = Len(Routes) + 1

C7_Witness ==
    /\ Done("w1") /\ resp["w1"].status = 500
    /\ Done("w2") /\ resp["w2"].status = 404

\* C8: the paths of the table are pairwise distinct, a request path matches
\* at most one entry, and the view chosen for a request is the one chosen
\* when the routes are registered in source order, for every order of
\* registration.
C8_DisjointOrderFree ==
    /\ \A i, j \in 1..Len(url_map) :
           url_map[i].path = url_map[j].path => i = j
    /\ \A p \in Paths : Cardinality(PathHits(url_map, p)) <= 1
    /\ \A w \in Workers :
           pc[w] = "view" =>
               LET m == Match(RegisterAll(<<StaticRule>>, SourceOrder), req[w])
               IN  m.kind = "rule" /\ endpoint[w].name = m.rule.endpoint

C8_Witness ==
    /\ url_map[2].endpoint = "flightsim"
    /\ url_map[Len(url_map)].endpoint = "index"
    /\ pc["w1"] = "view"
    /\ req["w1"].path = RootPath
    /\ endpoint["w1"].name = "index"

\* The response to request r handled by itself on the files d.
HandleAlone(r, d) ==
    LET m == Match(url_map, r) IN
    CASE m.kind = "NotFound" -> NotFound
      [] m.kind = "MethodNotAllowed" -> MethodNotAllowed
      [] m.kind = "RequestRedirect" -> Redirect(m.to)
      [] m.kind = "rule" ->
           IF r.method = "OPTIONS" THEN Ok(NoBody)
           ELSE IF m.rule.endpoint = "static"
           THEN Finalize(r, StaticResponse(EndpointOf(m.rule, r.path).filename, d))
           ELSE Finalize(r, ViewResponse(m.rule.endpoint, r, d))

\* C9: whatever the other workers are doing, a request is answered as it is
\* when it is handled by itself.
C9_InterleavingFree ==
    [][ \A w \in Workers :
            (pc[w] # "done" /\ pc'[w] = "done")
            => resp'[w] = HandleAlone(req'[w], disk) ]_vars

C9_Witness ==
    /\ Done("w1")
    /\ req["w1"].path = <<"templates", "checkers.html">>
    /\ resp["w1"].status = 200
    /\ resp["w1"].body.source # <<>>
    /\ pc["w2"] = "view"
    /\ endpoint["w2"].name = "index"

====
